---------------------------- MODULE Spec2Model ----------------------------
(***************************************************************************)
(* A model of nemo/collections/asr/parts/submodules/multi_head_attention.py *)
(*                                                                         *)
(* Tensors are modelled along their time axis only: a (batch, time, size)  *)
(* tensor is a sequence of frames, and a frame is an opaque value (a tuple *)
(* naming where it came from), since the cache protocol, the relative      *)
(* shift and the chunk/skew transforms only move entries around.  Where    *)
(* numbers matter (the softmax) scores are integers and weights are exact  *)
(* fractions with a common denominator.                                    *)
(*                                                                         *)
(* Python slicing is modelled as Python does it: negative bounds count     *)
(* from the end, -0 is 0, and bounds are clamped to the length.  A slice   *)
(* assignment whose right-hand side cannot be broadcast to the slice       *)
(* raises, as torch does.                                                  *)
(***************************************************************************)
EXTENDS Integers, Sequences, FiniteSets, TLC

(***************************************************************************)
(* Bounds of the model.                                                    *)
(***************************************************************************)
MaxQueryLen == 3
MaxCacheLen == 3
MaxDropSize == 3
NumSlots == 2
MaxContext == 1
MaxKeys == 3
MaxLen == 4
MaxRelQuery == 2
MaxRelCache == 2
MaxBandContext == 2
MaxBandLen == 5
MaxLocalContext == 2
MaxBuilds == 2
MaxParQuery == 2
MaxParCache == 3
MaxParDrop == 1
MaxPVWindow == 2
MaxPVChunks == 2
ExpRange == 4

VARIABLES
    variant,            \* the class of the attention instance
    cache_id,           \* self._cache_id
    cache_drop_size,    \* self.cache_drop_size
    att_context_size,   \* self.att_context_size, <<left, right>>
    storage,            \* the cache buffers' storage: buffer -> slot -> frames
    cache,              \* forward's argument: a buffer name, or "None"
    cache_next,         \* forward's argument: a buffer name, or "None"
    query, key, value,  \* forward's locals
    proj,               \* <<q, k, v>> once forward_qkv has run, else << >>
    pc,                 \* the position in forward
    stmt,               \* inside update_cache: the statement to run next
    err,                \* the exception raised, or "none"
    entry               \* the arguments and the storage as the call began

mhaVars == <<variant, cache_id, cache_drop_size, att_context_size, storage,
             cache, cache_next, query, key, value, proj, pc, stmt, err,
             entry>>

\* forward_attention, one query row at a time
VARIABLES
    fa_scores,          \* the row of scores, one integer per key position
    fa_mask,            \* the row of the mask: TRUE marks a masked position
    fa_value,           \* value, one number per key position (d_k = 1)
    fa_attn,            \* attn: the weights' numerators
    fa_den,             \* attn: the weights' common denominator
    fa_x,               \* x = attn . value: the context's numerator
    fa_pc

faVars == <<fa_scores, fa_mask, fa_value, fa_attn, fa_den, fa_x, fa_pc>>

\* The positional tables and the relative-position scores
VARIABLES
    abs_has,            \* PositionalEncoding: hasattr(self, 'pe')
    abs_pe,             \* PositionalEncoding.pe, one entry per position
    abs_req,            \* the largest length extend_pe was asked for so far
    abs_old,            \* pe as it was before the latest extend_pe call
    rel_has,            \* RelPositionalEncoding: hasattr(self, 'pe')
    rel_pe,             \* RelPositionalEncoding.pe
    rel_req,
    rel_old,
    pos_emb,            \* what RelPositionalEncoding.forward returned
    rs_T,               \* the query length of the relative attention call
    rs_c,               \* its cache length
    matrix_bd,          \* matrix_bd after rel_shift and truncation
    rs_pc

posVars == <<abs_has, abs_pe, abs_req, abs_old, rel_has, rel_pe, rel_req, rel_old,
             pos_emb, rs_T, rs_c, matrix_bd, rs_pc>>

\* Two attention instances called on the same cache buffers (storage)
VARIABLES
    p_next,             \* the next-cache buffer both calls are given
    p_id,               \* each instance's _cache_id
    p_drop,             \* each instance's cache_drop_size
    p_cache,            \* each call's cache argument: "A" or "None"
    p_query,            \* each call's query, key and value
    p_key,
    p_value,
    p_tmp,              \* the frames a call has read and not yet written
    p_pc,               \* where each call is in update_cache
    p_err,
    p_in                \* each call's arguments as they were passed

parVars == <<p_next, p_id, p_drop, p_cache, p_query, p_key, p_value, p_tmp, p_pc,
             p_err, p_in>>

\* sliding_chunks_matmul_pv on its own, one batch element, one head, d_k = 1
VARIABLES
    pv_w,               \* w
    pv_prob,            \* prob, (seqlen, 2w+1)
    pv_v,               \* v, seqlen frames
    pv_out,             \* what the function returned
    pv_pc

pvVars == <<pv_w, pv_prob, pv_v, pv_out, pv_pc>>

\* LocalAttRelPositionalEncoding
VARIABLES
    left_context,       \* self.left_context
    right_context,      \* self.right_context
    loc_has,            \* hasattr(self, 'pe')
    loc_pe,             \* self.pe
    loc_old,            \* pe as it was before the latest extend_pe call
    loc_builds,         \* how many times create_pe has run
    loc_emb,            \* what forward returned
    loc_T,              \* the input length of the forward call
    loc_c,              \* its cache_len
    loc_pc

locVars == <<left_context, right_context, loc_has, loc_pe, loc_old, loc_builds,
             loc_emb, loc_T, loc_c, loc_pc>>

\* RelPositionMultiHeadAttentionLongformer.forward, one batch element, one
\* head, d_k = 1, no cache
VARIABLES
    b_T,                \* T: the number of frames of query, key and value
    b_pad_mask,         \* pad_mask: TRUE marks a padded frame
    b_q, b_k, b_v,      \* the projected q, k, v, padded to a multiple of 2w
    b_p,                \* the projected pos_emb, one number per table entry
    b_mask,             \* mask: pad_mask padded with TRUE
    b_garbage,          \* what uninitialised memory happens to hold
    b_ac,               \* diagonal_matrix_ac as sliding_chunks_matmul_qk returns it
    b_scores,           \* scores, entry by entry what it was computed from
    b_attn,             \* attn: the weights' numerators, row by row
    b_den,              \* attn: each row's denominator
    b_x,                \* x: the context's numerator for each of the T frames
    b_pc,
    b_err

bandVars == <<b_T, b_pad_mask, b_q, b_k, b_v, b_p, b_mask, b_garbage, b_ac,
              b_scores, b_attn, b_den, b_x, b_pc, b_err>>

vars == <<mhaVars, faVars, posVars, bandVars, locVars, parVars, pvVars>>

notMHA == <<faVars, posVars, bandVars, locVars, parVars, pvVars>>
notFA == <<mhaVars, posVars, bandVars, locVars, parVars, pvVars>>
notPos == <<mhaVars, faVars, bandVars, locVars, parVars, pvVars>>
notLoc == <<mhaVars, faVars, posVars, bandVars, parVars, pvVars>>
notPV == <<mhaVars, faVars, posVars, bandVars, locVars, parVars>>
notPar == <<variant, cache_id, cache_drop_size, att_context_size, cache, cache_next,
            query, key, value, proj, pc, stmt, err, entry, faVars, posVars, bandVars,
            locVars, pvVars>>
notBand == <<variant, cache_id, cache_drop_size, storage, cache, cache_next, query,
             key, value, proj, pc, stmt, err, entry, faVars, posVars, locVars, parVars,
             pvVars>>

BandIdle ==
    /\ b_T = 0 /\ b_pad_mask = << >>
    /\ b_q = << >> /\ b_k = << >> /\ b_v = << >> /\ b_p = << >>
    /\ b_mask = << >> /\ b_garbage = 0
    /\ b_ac = << >> /\ b_scores = << >> /\ b_attn = << >> /\ b_den = << >>
    /\ b_x = << >>
    /\ b_pc = "idle" /\ b_err = "none"

PosIdle ==
    /\ abs_has = FALSE /\ abs_pe = << >> /\ abs_req = 0 /\ abs_old = << >>
    /\ rel_has = FALSE /\ rel_pe = << >> /\ rel_req = 0 /\ rel_old = << >>
    /\ pos_emb = << >> /\ rs_T = 0 /\ rs_c = 0 /\ matrix_bd = << >>
    /\ rs_pc = "idle"

Insts == {1, 2}

ParIdle ==
    /\ p_next = "None"
    /\ p_id = [i \in Insts |-> 0] /\ p_drop = [i \in Insts |-> 0]
    /\ p_cache = [i \in Insts |-> "None"]
    /\ p_query = [i \in Insts |-> << >>] /\ p_key = [i \in Insts |-> << >>]
    /\ p_value = [i \in Insts |-> << >>] /\ p_tmp = [i \in Insts |-> << >>]
    /\ p_pc = [i \in Insts |-> "idle"] /\ p_err = [i \in Insts |-> "none"]
    /\ p_in = [i \in Insts |-> << >>]

PVIdle ==
    /\ pv_w = 0 /\ pv_prob = << >> /\ pv_v = << >> /\ pv_out = << >> /\ pv_pc = "idle"

LocIdle ==
    /\ left_context = 0 /\ right_context = 0
    /\ loc_has = FALSE /\ loc_pe = << >> /\ loc_old = << >> /\ loc_builds = 0
    /\ loc_emb = << >> /\ loc_T = 0 /\ loc_c = 0
    /\ loc_pc = "idle"

FAIdle ==
    /\ fa_scores = << >> /\ fa_mask = << >> /\ fa_value = << >>
    /\ fa_attn = << >> /\ fa_den = 1 /\ fa_x = 0 /\ fa_pc = "idle"

Min(a, b) == IF a < b THEN a ELSE b
Max(a, b) == IF a > b THEN a ELSE b

(***************************************************************************)
(* Python slices of a sequence of length n, as 0-based half-open ranges.   *)
(***************************************************************************)
ClampIndex(i, n) == IF i < 0 THEN Max(i + n, 0) ELSE Min(i, n)

\* x[a:]
SliceFrom(n, a) == <<ClampIndex(a, n), n>>

\* x[:b]
SliceTo(n, b) == <<0, ClampIndex(b, n)>>

\* x[a:b]
SliceBetween(n, a, b) ==
    <<ClampIndex(a, n), Max(ClampIndex(a, n), ClampIndex(b, n))>>

RangeLen(r) == r[2] - r[1]

GetSlice(s, r) == SubSeq(s, r[1] + 1, r[2])

\* Whether a right-hand side of srcLen frames can be assigned to a slice of
\* dstLen frames: equal sizes, or a size of 1, which broadcasts.
Broadcastable(srcLen, dstLen) == srcLen = dstLen \/ srcLen = 1

\* dst[r] = src, for a src that does not share dst's storage.
SetSlice(dst, r, src) ==
    [i \in 1..Len(dst) |->
        IF i > r[1] /\ i <= r[2]
        THEN (IF Len(src) = RangeLen(r) THEN src[i - r[1]] ELSE src[1])
        ELSE dst[i]]

\* dst[r] = dst[s] copied frame by frame from the last frame to the first,
\* each read seeing the writes made before it.
RECURSIVE CopyBackward(_, _, _, _)
CopyBackward(buf, r, s, i) ==
    IF i = 0 THEN buf
    ELSE CopyBackward([buf EXCEPT ![r[1] + i] = buf[s[1] + i]], r, s, i - 1)

RangesOverlap(r, s) ==
    /\ RangeLen(r) > 0 /\ RangeLen(s) > 0
    /\ r[1] < s[2] /\ s[1] < r[2]
    /\ r # s

(***************************************************************************)
(* MultiHeadAttention: the streaming cache protocol.                       *)
(***************************************************************************)
Buffers == {"A", "B"}
Slots == 0..(NumSlots - 1)
Variants == {"MultiHeadAttention", "Longformer"}

\* A buffer of shape (cache_nums, batch, time_cache, size): every slot holds
\* n frames, each frame named after its buffer, slot and position.
NewStorage(n) ==
    [b \in Buffers |-> [s \in Slots |-> [p \in 1..n |-> <<b, s, p - 1>>]]]

\* An input tensor of n frames.
NewTensor(name, n) == [p \in 1..n |-> <<name, 0, p - 1>>]

\* The statements of update_cache's body that act on tensors, in program
\* order: line 150 (cat), line 153 (shift the cache's tail to the front of
\* next), line 154 (append the query's first frames).
UpdateCacheBodyWritesFirst == <<"shift", "append", "cat">>

UpdateCacheBody == <<"cat", "shift", "append">>

\* q_keep_size, line 151
QKeepSize == Len(query) - cache_drop_size

\* time_cache of the slot this instance uses
CacheLen(buf) == Len(storage[buf][cache_id])

AfterStmt == IF stmt = Len(UpdateCacheBody) THEN "forward_qkv" ELSE "update_cache"

instVars == <<variant, cache_id, cache_drop_size, att_context_size>>

InitMHA ==
    /\ variant \in Variants
    /\ cache_id \in Slots
    /\ cache_drop_size \in 0..MaxDropSize
    /\ att_context_size \in (0..MaxContext) \X (0..MaxContext)
    /\ \E n \in 1..MaxCacheLen : storage = NewStorage(n)
    /\ cache = "None" /\ cache_next = "None"
    /\ query = << >> /\ key = << >> /\ value = << >>
    /\ proj = << >>
    /\ pc = "idle" /\ stmt = 0 /\ err = "none"
    /\ entry = [cache |-> "None", cache_next |-> "None", storage |-> storage,
                query |-> << >>, key |-> << >>, value |-> << >>]
    /\ FAIdle
    /\ PosIdle
    /\ BandIdle
    /\ LocIdle
    /\ ParIdle
    /\ PVIdle

\* forward(query, key, value, mask, pos_emb, cache, cache_next) is entered.
Call ==
    /\ pc = "idle"
    /\ \E n \in 1..MaxQueryLen, c \in {"None", "A"}, cn \in {"None", "A", "B"} :
         /\ query' = NewTensor("query", n)
         /\ key' = NewTensor("key", n)
         /\ value' = NewTensor("value", n)
         /\ cache' = c
         /\ cache_next' = cn
         /\ entry' = [cache |-> c, cache_next |-> cn, storage |-> storage,
                      query |-> query', key |-> key', value |-> value']
    /\ pc' = "update_cache"
    /\ stmt' = 1
    /\ UNCHANGED <<notMHA, instVars, storage, proj, err>>

CatValueFromValue(slot, k, v) == slot \o v

\* line 150: what value becomes; the value passed in is not used
CatValue(slot, k, v) == slot \o k

\* line 150: key = value = torch.cat([cache[self._cache_id], key], dim=1)
StmtCat ==
    /\ pc = "update_cache" /\ UpdateCacheBody[stmt] = "cat"
    /\ IF cache # "None"
       THEN /\ key' = storage[cache][cache_id] \o key
            /\ value' = CatValue(storage[cache][cache_id], key, value)
       ELSE UNCHANGED <<key, value>>
    /\ pc' = AfterStmt
    /\ stmt' = stmt + 1
    /\ UNCHANGED <<notMHA, instVars, storage, cache, cache_next, query, proj, err, entry>>

Raise(e) ==
    /\ err' = e
    /\ pc' = "raised"
    /\ UNCHANGED <<notMHA, instVars, storage, cache, cache_next, query, key, value, proj,
                   stmt, entry>>

WriteSlot(frames) ==
    /\ storage' = [storage EXCEPT ![cache_next][cache_id] = frames]
    /\ pc' = AfterStmt
    /\ stmt' = stmt + 1
    /\ UNCHANGED <<notMHA, instVars, cache, cache_next, query, key, value, proj, err, entry>>

SkipStmt ==
    /\ pc' = AfterStmt
    /\ stmt' = stmt + 1
    /\ UNCHANGED <<notMHA, instVars, storage, cache, cache_next, query, key, value, proj,
                   err, entry>>

\* line 153:
\*   cache_next[self._cache_id, :, :-q_keep_size, :] =
\*       cache[self._cache_id, :, q_keep_size:, :]
\* When cache_next is the cache itself and the two slices overlap, the copy
\* reads frames it is also writing: torch either refuses it (the memory
\* overlap check of contiguous tensors) or copies in an order it does not
\* promise; front to back gives the same frames as copying from a snapshot.
StmtShift ==
    /\ pc = "update_cache" /\ UpdateCacheBody[stmt] = "shift"
    /\ IF cache = "None" \/ cache_next = "None"
       THEN SkipStmt
       ELSE LET dst == storage[cache_next][cache_id]
                src == storage[cache][cache_id]
                dr == SliceTo(Len(dst), -QKeepSize)
                sr == SliceFrom(Len(src), QKeepSize)
            IN  IF ~Broadcastable(RangeLen(sr), RangeLen(dr))
                THEN Raise("RuntimeError")
                ELSE IF cache = cache_next /\ RangesOverlap(dr, sr)
                THEN \/ Raise("RuntimeError")
                     \/ WriteSlot(SetSlice(dst, dr, GetSlice(src, sr)))
                     \/ WriteSlot(CopyBackward(dst, dr, sr, RangeLen(dr)))
                ELSE WriteSlot(SetSlice(dst, dr, GetSlice(src, sr)))

\* line 154:
\*   cache_next[self._cache_id, :, -q_keep_size:, :] = query[:, :q_keep_size, :]
StmtAppend ==
    /\ pc = "update_cache" /\ UpdateCacheBody[stmt] = "append"
    /\ IF cache = "None" \/ cache_next = "None"
       THEN SkipStmt
       ELSE LET dst == storage[cache_next][cache_id]
                dr == SliceFrom(Len(dst), -QKeepSize)
                sr == SliceTo(Len(query), QKeepSize)
            IN  IF ~Broadcastable(RangeLen(sr), RangeLen(dr))
                THEN Raise("RuntimeError")
                ELSE WriteSlot(SetSlice(dst, dr, GetSlice(query, sr)))

\* forward_qkv(query, key, value): the projections, frame by frame.
ForwardQKV ==
    /\ pc = "forward_qkv"
    /\ proj' = <<query, key, value>>
    /\ pc' = IF variant = "Longformer" THEN "window_check" ELSE "attend"
    /\ UNCHANGED <<notMHA, instVars, storage, cache, cache_next, query, key, value, stmt,
                   err, entry>>

\* lines 300-302 of the banded forward
WindowCheck ==
    /\ pc = "window_check"
    /\ LET w == Max(att_context_size[1], att_context_size[2])
       IN  IF w <= 0
           THEN Raise("ValueError")
           ELSE /\ pc' = "attend"
                /\ UNCHANGED <<notMHA, instVars, storage, cache, cache_next, query, key,
                               value, proj, stmt, err, entry>>

\* The scores, the softmax and the output projection: they touch neither the
\* buffers nor the instance.
Attend ==
    /\ pc = "attend"
    /\ pc' = "done"
    /\ UNCHANGED <<notMHA, instVars, storage, cache, cache_next, query, key, value, proj,
                   stmt, err, entry>>

NextMHA == Call \/ StmtCat \/ StmtShift \/ StmtAppend \/ ForwardQKV \/ WindowCheck \/ Attend

SpecMHA == InitMHA /\ [][NextMHA]_vars

(***************************************************************************)
(* Properties of the cache protocol.                                       *)
(***************************************************************************)
\* update_cache has returned or raised.
UpdateCacheEnded ==
    \/ pc \in {"forward_qkv", "window_check", "attend", "done"}
    \/ pc = "raised"

BothBuffers == entry.cache # "None" /\ entry.cache_next # "None"

\* keep = T_q - d
EntryKeep == Len(entry.query) - cache_drop_size

OldSlot == entry.storage[entry.cache][cache_id]

\* The old slot's frames keep..C-1, then the query's first keep frames.
SlidWindow ==
    SubSeq(OldSlot, EntryKeep + 1, Len(OldSlot)) \o SubSeq(entry.query, 1, EntryKeep)

\* C1: whenever update_cache is called with a cache and a next-cache buffer,
\* for every query length, drop size and capacity C with keep = T_q - d in
\* 0..C, the call completes and slot cache_id of the next-cache buffer then
\* holds the old slot's frames keep..C-1 followed by the query's first keep
\* frames.  (Stated for a next-cache buffer with storage of its own, where
\* no copy reads what it writes.)
C1_NextCacheIsSlidWindow ==
    (UpdateCacheEnded /\ BothBuffers /\ entry.cache # entry.cache_next
        /\ EntryKeep \in 0..Len(OldSlot))
        => /\ ~(pc = "raised" /\ err = "RuntimeError")
           /\ storage[entry.cache_next][cache_id] = SlidWindow

\* The part of C1 the code does keep: with 1 <= keep <= C and a next-cache
\* buffer that is not the cache itself, the slot holds the slid window.
NextCacheIsSlidWindowForPositiveKeep ==
    (UpdateCacheEnded /\ BothBuffers /\ entry.cache # entry.cache_next
        /\ EntryKeep \in 1..Len(OldSlot))
        => /\ ~(pc = "raised" /\ err = "RuntimeError")
           /\ storage[entry.cache_next][cache_id] = SlidWindow

\* C2: the keys and values handed to the projections are the cache slot's
\* frames as they were when the call began, followed by the new key frames,
\* also when the next-cache buffer is the cache's own storage.
C2_KeysReadBeforeCacheWritten ==
    (proj # << >> /\ entry.cache # "None")
        => /\ proj[2] = OldSlot \o entry.key
           /\ proj[3] = OldSlot \o entry.key

\* A call whose next-cache buffer is the cache itself, which has rewritten the
\* slot and then projected the keys.
C2_Witness ==
    /\ proj # << >>
    /\ entry.cache # "None" /\ entry.cache = entry.cache_next
    /\ storage[entry.cache][cache_id] # OldSlot

UpdateCacheReturned == pc \in {"forward_qkv", "window_check", "attend", "done"}

\* C15: with a cache, update_cache returns as key and as value one and the
\* same sequence, the C frames of slot cache_id in order followed by the
\* new key frames (C + T_k frames), with nothing of the value passed in,
\* and returns the query unchanged.
C15_KeyAndValueAreCacheThenKey ==
    (UpdateCacheReturned /\ entry.cache # "None")
        => /\ key = value
           /\ Len(key) = Len(OldSlot) + Len(entry.key)
           /\ SubSeq(key, 1, Len(OldSlot)) = OldSlot
           /\ SubSeq(key, Len(OldSlot) + 1, Len(key)) = entry.key
           /\ \A n \in 1..Len(value), m \in 1..Len(entry.value) : value[n] # entry.value[m]
           /\ query = entry.query

\* A call with a cache of several frames and several new frames has
\* returned from update_cache.
C15_Witness ==
    /\ pc = "forward_qkv" /\ entry.cache # "None"
    /\ Len(OldSlot) >= 2 /\ Len(entry.key) >= 2
    /\ Len(key) = Len(OldSlot) + Len(entry.key)
    /\ entry.value # entry.key

\* C9: when max(left, right) <= 0 the configuration error is raised before
\* any computation: no projection has been computed and the next-cache
\* buffer is unchanged.
C9_WindowErrorBeforeComputation ==
    err = "ValueError" => (proj = << >> /\ storage = entry.storage)

(***************************************************************************)
(* Numbers.  A score is an integer.  exp is modelled by what the softmax   *)
(* needs of it in floating point: exp(0) is the largest value, exp(d) is   *)
(* positive for d within ExpRange of 0 and underflows to exactly 0 below   *)
(* (in float32, below about -104).  Weights are kept as numerators over a  *)
(* common denominator, so sums and comparisons are exact; rounding is not  *)
(* modelled.                                                               *)
(***************************************************************************)
RECURSIVE Pow2(_)
Pow2(n) == IF n = 0 THEN 1 ELSE 2 * Pow2(n - 1)

Exp(d) == IF d < -ExpRange THEN 0 ELSE Pow2(ExpRange + d)

RECURSIVE SumTo(_, _)
SumTo(s, n) == IF n = 0 THEN 0 ELSE s[n] + SumTo(s, n - 1)

Sum(s) == SumTo(s, Len(s))

\* The largest s[j] among the positions j with fin[j]
RowMax(s, fin) ==
    CHOOSE m \in {s[j] : j \in {i \in 1..Len(s) : fin[i]}} :
        \A j \in 1..Len(s) : fin[j] => s[j] <= m

\* torch.softmax(s, dim=-1) of a row whose entries are s[j], or negative
\* infinity where fin[j] is FALSE: the numerators exp(s[j] - max).  The
\* denominator is their sum.  A row with no finite entry is NaN: all 0 over 0.
SoftmaxNum(s, fin) ==
    IF \A j \in 1..Len(s) : ~fin[j]
    THEN [j \in 1..Len(s) |-> 0]
    ELSE LET m == RowMax(s, fin)
         IN  [j \in 1..Len(s) |-> IF fin[j] THEN Exp(s[j] - m) ELSE 0]

AllFinite(s) == [j \in 1..Len(s) |-> TRUE]

\* x.masked_fill(mask, v)
MaskedFill(x, m, v) == [j \in 1..Len(x) |-> IF m[j] THEN v ELSE x[j]]

(***************************************************************************)
(* MultiHeadAttention.forward_attention, for one query row of one head,    *)
(* with d_k = 1.  Dropout is the identity (inference).                     *)
(***************************************************************************)
\* line 111
FillValue == -10000

MaskedScoresZeroFill(scores, m) == MaskedFill(scores, m, 0)

\* line 111: scores = scores.masked_fill(mask, -10000.0)
MaskedScores(scores, m) == MaskedFill(scores, m, FillValue)

AttnWeightsNotZeroed(scores, m) ==
    IF m # << >>
    THEN SoftmaxNum(MaskedScores(scores, m), AllFinite(scores))
    ELSE SoftmaxNum(scores, AllFinite(scores))

\* lines 109-114: attn's numerators
AttnWeights(scores, m) ==
    IF m # << >>
    THEN MaskedFill(SoftmaxNum(MaskedScores(scores, m), AllFinite(scores)), m, 0)
    ELSE SoftmaxNum(scores, AllFinite(scores))

\* lines 109-114: attn's denominator, the softmax's sum
AttnDenominator(scores, m) ==
    IF m # << >>
    THEN Sum(SoftmaxNum(MaskedScores(scores, m), AllFinite(scores)))
    ELSE Sum(SoftmaxNum(scores, AllFinite(scores)))

\* line 117: x = torch.matmul(p_attn, value)
Context(attn, v) == Sum([j \in 1..Len(attn) |-> attn[j] * v[j]])

\* Scores a row may hold: ordinary ones, and ones at and next to the fill value.
ScoreValues == {FillValue, FillValue + 2, 0, 3}

\* The attention instance before any call, with no cache in use.
MHAIdle ==
    /\ variant = "MultiHeadAttention" /\ cache_id = 0 /\ cache_drop_size = 0
    /\ att_context_size = <<0, 0>>
    /\ storage = NewStorage(1)
    /\ cache = "None" /\ cache_next = "None"
    /\ query = << >> /\ key = << >> /\ value = << >>
    /\ proj = << >>
    /\ pc = "idle" /\ stmt = 0 /\ err = "none"
    /\ entry = [cache |-> "None", cache_next |-> "None", storage |-> storage,
                query |-> << >>, key |-> << >>, value |-> << >>]

InitFA == MHAIdle /\ FAIdle /\ PosIdle /\ BandIdle /\ LocIdle /\ ParIdle /\ PVIdle

\* forward_attention(value, scores, mask); mask = << >> stands for None.
ForwardAttention ==
    /\ fa_pc = "idle"
    /\ \E n \in 1..MaxKeys :
         \E sc \in [1..n -> ScoreValues], m \in [1..n -> BOOLEAN] \cup {<< >>} :
            /\ fa_scores' = sc
            /\ fa_mask' = m
            /\ fa_value' = [j \in 1..n |-> j]
            /\ fa_attn' = AttnWeights(sc, m)
            /\ fa_den' = AttnDenominator(sc, m)
            /\ fa_x' = Context(fa_attn', fa_value')
    /\ fa_pc' = "done"
    /\ UNCHANGED notFA

NextFA == ForwardAttention

SpecFA == InitFA /\ [][NextFA]_vars

(***************************************************************************)
(* Properties of forward_attention.                                        *)
(***************************************************************************)
Masked == {j \in 1..Len(fa_scores) : fa_mask[j]}
Unmasked == {j \in 1..Len(fa_scores) : ~fa_mask[j]}

UnmaskedSum == Sum([j \in 1..Len(fa_attn) |-> IF fa_mask[j] THEN 0 ELSE fa_attn[j]])

WithMask == fa_pc = "done" /\ fa_mask # << >>

\* C3 as stated: with a mask, every row's weights are 0 at the masked
\* positions and sum to 1 over the unmasked ones.
C3_WeightsSumToOneOverUnmasked ==
    WithMask => /\ \A j \in Masked : fa_attn[j] = 0
                /\ UnmaskedSum = fa_den

\* The masked positions' exponentials underflow to 0: some unmasked score
\* lies more than exp's range above the fill value.
FillUnderflows == \E j \in Unmasked : fa_scores[j] - FillValue > ExpRange

\* C3 amended: with a mask, every row's weights are 0 at the masked
\* positions; they sum to 1 over the unmasked positions in every row that
\* has no masked position, or an unmasked score far enough above the fill
\* value for the masked exponentials to underflow; a fully masked row sums
\* to 0.
C3_WeightsZeroAtMaskedSumToOneWhenFillUnderflows ==
    WithMask => /\ \A j \in Masked : fa_attn[j] = 0
                /\ (Unmasked # {} /\ (Masked = {} \/ FillUnderflows))
                        => UnmaskedSum = fa_den
                /\ Unmasked = {} => UnmaskedSum = 0

\* A row with masked and unmasked positions whose unmasked weights sum to 1.
C3_Witness ==
    /\ WithMask /\ Masked # {} /\ Cardinality(Unmasked) >= 2
    /\ FillUnderflows
    /\ UnmaskedSum = fa_den

\* C4: a row whose positions are all masked has every weight 0 after the
\* re-zeroing, and its context is 0.
C4_FullyMaskedRowIsZero ==
    (WithMask /\ Unmasked = {})
        => /\ \A j \in 1..Len(fa_attn) : fa_attn[j] = 0
           /\ fa_x = 0

\* A fully masked row of several positions, which the softmax alone had left
\* uniform and non-zero.
C4_Witness ==
    /\ WithMask /\ Unmasked = {} /\ Len(fa_scores) >= 2
    /\ \A j \in 1..Len(fa_scores) :
          AttnWeightsNotZeroed(fa_scores, fa_mask)[j] = Exp(0)
    /\ fa_x = 0

(***************************************************************************)
(* PositionalEncoding and RelPositionalEncoding.  create_pe fills row n of *)
(* the table from positions[n] alone (sin and cos of the position times    *)
(* fixed frequencies), so a row is modelled by the position it encodes.    *)
(***************************************************************************)
\* torch.arange(start, stop, -1)
ArangeDown(start, stop) == [n \in 1..Max(start - stop, 0) |-> start - (n - 1)]

\* torch.arange(0, stop)
ArangeUp(stop) == [n \in 1..Max(stop, 0) |-> n - 1]

\* create_pe(positions): lines 580-593
CreatePe(positions) == [n \in 1..Len(positions) |-> <<"pe", positions[n]>>]

AbsPositions(length) == ArangeUp(length)

\* line 637: torch.arange(length - 1, -length, -1)
RelPositions(length) == ArangeDown(length - 1, -length)

\* line 597, negated: the table is (re)built
AbsMustGrow(has, size, length) == ~(has /\ size >= length)

RelMustGrowAlways(has, size, length) == TRUE

\* lines 632-633, negated
RelMustGrow(has, size, length) == ~(has /\ size >= 2 * length - 1)

\* PositionalEncoding.extend_pe(length, device)
AbsExtendPe ==
    \E length \in 1..MaxLen :
        /\ abs_old' = abs_pe
        /\ abs_req' = Max(abs_req, length)
        /\ IF AbsMustGrow(abs_has, Len(abs_pe), length)
           THEN /\ abs_pe' = CreatePe(AbsPositions(length))
                /\ abs_has' = TRUE
           ELSE UNCHANGED <<abs_pe, abs_has>>
        /\ UNCHANGED <<notPos, rel_has, rel_pe, rel_req, rel_old, pos_emb, rs_T, rs_c,
                       matrix_bd, rs_pc>>

\* RelPositionalEncoding.extend_pe(length, device)
RelExtendPe ==
    \E length \in 1..MaxLen :
        /\ rel_old' = rel_pe
        /\ rel_req' = Max(rel_req, length)
        /\ IF RelMustGrow(rel_has, Len(rel_pe), length)
           THEN /\ rel_pe' = CreatePe(RelPositions(length))
                /\ rel_has' = TRUE
           ELSE UNCHANGED <<rel_pe, rel_has>>
        /\ UNCHANGED <<notPos, abs_has, abs_pe, abs_req, abs_old, pos_emb, rs_T, rs_c,
                       matrix_bd, rs_pc>>

\* RelPositionalEncoding.forward: lines 656-660, the slice of pe returned for
\* an input of t frames and a cache of c frames
RelPosEmb(pe, t, c) ==
    LET input_len == t + c
        center_pos == (Len(pe) \div 2) + 1
        start_pos == center_pos - input_len
        end_pos == center_pos + input_len - 1
    IN  GetSlice(pe, SliceBetween(Len(pe), start_pos, end_pos))

\* RelPositionalEncoding.forward(x, cache_len), called by the encoder for the
\* relative attention layers
RelPosForward ==
    /\ rs_pc = "idle"
    /\ rel_has
    /\ \E t \in 1..MaxRelQuery, c \in 0..MaxRelCache :
         /\ rs_T' = t
         /\ rs_c' = c
         /\ pos_emb' = RelPosEmb(rel_pe, t, c)
    /\ rs_pc' = "attend"
    /\ UNCHANGED <<notPos, abs_has, abs_pe, abs_req, abs_old, rel_has, rel_pe,
                   rel_req, rel_old, matrix_bd>>

(***************************************************************************)
(* RelPositionMultiHeadAttention: the content-position scores.  An entry   *)
(* of matrix_bd is the product of a query row with a row of the projected  *)
(* positional embedding; it is modelled by the two it was computed from.   *)
(***************************************************************************)
\* x.view(...) of a row-major matrix: its entries in storage order
Flatten(m, rows, cols) ==
    [n \in 1..(rows * cols) |-> m[((n - 1) \div cols) + 1][((n - 1) % cols) + 1]]

Reshape(flat, rows, cols) ==
    [i \in 1..rows |-> [j \in 1..cols |-> flat[(i - 1) * cols + j]]]

ZeroEntry == [row |-> -1, col |-> -1, pos |-> <<"zero", 0>>]

\* line 238: torch.matmul(q_with_bias_v, p.transpose(-2, -1)), 0-based row
\* and column with the positional embedding the column was computed from
RawBD(qlen, emb) ==
    [i \in 1..qlen |-> [k \in 1..Len(emb) |->
        [row |-> i - 1, col |-> k - 1, pos |-> emb[k]]]]

RelShiftPadRight(x, qlen, pos_len) ==
    LET padded == [i \in 1..qlen |-> x[i] \o <<ZeroEntry>>]
        viewed == Reshape(Flatten(padded, qlen, pos_len + 1), pos_len + 1, qlen)
        dropped == SubSeq(viewed, 2, pos_len + 1)
    IN  Reshape(Flatten(dropped, pos_len, qlen), qlen, pos_len)

\* rel_shift(x): lines 190-196
RelShift(x, qlen, pos_len) ==
    LET padded == [i \in 1..qlen |-> <<ZeroEntry>> \o x[i]]
        viewed == Reshape(Flatten(padded, qlen, pos_len + 1), pos_len + 1, qlen)
        dropped == SubSeq(viewed, 2, pos_len + 1)
    IN  Reshape(Flatten(dropped, pos_len, qlen), qlen, pos_len)

\* lines 238-241: matrix_bd, shifted and cut to matrix_ac's width
ShiftedBD(qlen, klen, emb) ==
    LET shifted == RelShift(RawBD(qlen, emb), qlen, Len(emb))
    IN  [i \in 1..qlen |-> GetSlice(shifted[i], SliceTo(Len(emb), klen))]

\* RelPositionMultiHeadAttention.forward, lines 234-243: the key is the
\* cache's frames followed by the query's, so matrix_ac is rs_T wide plus
\* rs_c; adding a matrix_bd of another width raises unless it broadcasts.
RelAttention ==
    /\ rs_pc = "attend"
    /\ matrix_bd' = ShiftedBD(rs_T, rs_T + rs_c, pos_emb)
    /\ rs_pc' = IF Broadcastable(Min(Len(pos_emb), rs_T + rs_c), rs_T + rs_c)
                THEN "done" ELSE "raised"
    /\ UNCHANGED <<notPos, abs_has, abs_pe, abs_req, abs_old, rel_has, rel_pe,
                   rel_req, rel_old, pos_emb, rs_T, rs_c>>

\* The call returns; the encoder may call again.
RelReturn ==
    /\ rs_pc \in {"done", "raised"}
    /\ rs_pc' = "idle"
    /\ pos_emb' = << >> /\ rs_T' = 0 /\ rs_c' = 0 /\ matrix_bd' = << >>
    /\ UNCHANGED <<notPos, abs_has, abs_pe, abs_req, abs_old, rel_has, rel_pe,
                   rel_req, rel_old>>

InitPos == MHAIdle /\ FAIdle /\ PosIdle /\ BandIdle /\ LocIdle /\ ParIdle /\ PVIdle

NextPos == AbsExtendPe \/ RelExtendPe \/ RelPosForward \/ RelAttention \/ RelReturn

SpecPos == InitPos /\ [][NextPos]_vars

(***************************************************************************)
(* Properties of the relative shift and of the tables.                     *)
(***************************************************************************)
\* C5: after rel_shift and the truncation to the key width, for a raw matrix
\* of width 2(T+c)-1, entry [i, j] (i in 0..T-1, j in 0..T+c-1) is raw entry
\* [i, j - i + (T-1)], the one computed from the embedding of relative
\* position (c + i) - j; never the padding zero nor another row's entry.
C5_RelShiftRemapsIndices ==
    (rs_pc = "done" /\ Len(pos_emb) = 2 * (rs_T + rs_c) - 1)
        => \A i \in 0..(rs_T - 1), j \in 0..(rs_T + rs_c - 1) :
              matrix_bd[i + 1][j + 1] =
                  [row |-> i, col |-> j - i + (rs_T - 1),
                   pos |-> <<"pe", (rs_c + i) - j>>]

\* A call with several query rows and a cache, from a table larger than the
\* call needs.
C5_Witness ==
    /\ rs_pc = "done" /\ Len(pos_emb) = 2 * (rs_T + rs_c) - 1
    /\ rs_T >= 2 /\ rs_c >= 1
    /\ Len(rel_pe) > Len(pos_emb)
    /\ Len(matrix_bd) = rs_T /\ Len(matrix_bd[1]) = rs_T + rs_c

\* The entry of a relative table for offset o: the middle index holds
\* offset 0 and offsets fall from left to right.
RelEntry(pe, o) == pe[((Len(pe) + 1) \div 2) - o]

RelCovered(pe) == IF pe = << >> THEN {} ELSE (-(Len(pe) \div 2))..(Len(pe) \div 2)

\* C10: after any sequence of extend_pe calls the absolute table has as many
\* entries as the largest length requested so far and the relative table
\* 2L-1 for the largest L; neither ever shrinks, and the value stored for
\* every offset covered before a call is unchanged by the call.
C10_TablesGrowAndKeepValues ==
    /\ abs_req > 0 => (abs_has /\ Len(abs_pe) = abs_req)
    /\ Len(abs_pe) >= Len(abs_old)
    /\ \A n \in 1..Len(abs_old) : abs_pe[n] = abs_old[n]
    /\ rel_req > 0 => (rel_has /\ Len(rel_pe) = 2 * rel_req - 1)
    /\ Len(rel_pe) >= Len(rel_old)
    /\ \A o \in RelCovered(rel_old) : RelEntry(rel_pe, o) = RelEntry(rel_old, o)

\* Both tables have been regrown from a smaller, non-empty table.
C10_Witness ==
    /\ abs_old # << >> /\ Len(abs_pe) > Len(abs_old)
    /\ rel_old # << >> /\ Len(rel_pe) > Len(rel_old) /\ Len(rel_old) >= 3

RelForwardReturned == rs_pc \in {"attend", "done", "raised"}

\* pos_emb is the centred window for rs_T + rs_c frames
CentredWindow ==
    /\ Len(pos_emb) = 2 * (rs_T + rs_c) - 1
    /\ \A k \in 0..(Len(pos_emb) - 1) : pos_emb[k + 1] = <<"pe", (rs_T + rs_c - 1) - k>>
    /\ pos_emb[rs_T + rs_c] = <<"pe", 0>>

\* C11: RelPositionalEncoding.forward, for an input of T frames and a cache
\* of c and any table reached through extend_pe calls, returns 2(T+c)-1
\* entries, the middle one for offset 0 and the k-th for offset (T+c-1)-k.
C11_ForwardReturnsCentredWindow ==
    RelForwardReturned => CentredWindow

\* The same when the table covers the T + c frames: it holds.
ForwardReturnsCentredWindowFromCoveringTable ==
    [][(RelPosForward /\ Len(rel_pe) >= 2 * (rs_T' + rs_c') - 1) => CentredWindow']_vars

CentredWindowWithCache ==
    /\ RelForwardReturned /\ rs_c >= 1 /\ rs_T >= 2
    /\ Len(rel_pe) > 2 * (rs_T + rs_c) - 1
    /\ CentredWindow

(***************************************************************************)
(* LocalAttRelPositionalEncoding: the table of the banded attention.       *)
(***************************************************************************)
LocalMustBuildAlways(has) == TRUE

\* lines 686-687, negated
LocalMustBuild(has) == ~has

\* lines 689-691: torch.arange(left_context, -right_context - 1, -1)
LocalPositions(left, right) == ArangeDown(left, -right - 1)

\* lines 706-707
LocalPosEmb(pe, left, right) == GetSlice(pe, SliceTo(Len(pe), left + right + 1))

InitLoc ==
    /\ MHAIdle /\ FAIdle /\ PosIdle /\ BandIdle /\ ParIdle /\ PVIdle
    /\ left_context \in 0..MaxLocalContext
    /\ right_context \in 0..MaxLocalContext
    /\ loc_has = FALSE /\ loc_pe = << >> /\ loc_old = << >> /\ loc_builds = 0
    /\ loc_emb = << >> /\ loc_T = 0 /\ loc_c = 0
    /\ loc_pc = "idle"

\* LocalAttRelPositionalEncoding.extend_pe(length, device)
LocalExtendPe ==
    /\ loc_builds < MaxBuilds
    /\ \E length \in 1..MaxLen :
        /\ loc_old' = loc_pe
        /\ IF LocalMustBuild(loc_has)
           THEN /\ loc_pe' = CreatePe(LocalPositions(left_context, right_context))
                /\ loc_has' = TRUE
                /\ loc_builds' = loc_builds + 1
           ELSE UNCHANGED <<loc_pe, loc_has, loc_builds>>
    /\ UNCHANGED <<notLoc, left_context, right_context, loc_emb, loc_T, loc_c, loc_pc>>

\* LocalAttRelPositionalEncoding.forward(x, cache_len), whenever the caller
\* calls it; without a table self.pe raises AttributeError
LocalForward ==
    /\ \E t \in 1..MaxLen, c \in 0..MaxRelCache :
         /\ loc_T' = t
         /\ loc_c' = c
    /\ IF loc_has
       THEN /\ loc_emb' = LocalPosEmb(loc_pe, left_context, right_context)
            /\ loc_pc' = "returned"
       ELSE /\ loc_emb' = << >>
            /\ loc_pc' = "raised"
    /\ UNCHANGED <<notLoc, left_context, right_context, loc_has, loc_pe, loc_old,
                   loc_builds>>

NextLoc == LocalExtendPe \/ LocalForward

SpecLoc == InitLoc /\ [][NextLoc]_vars

\* The table for offsets +left down to -right
LocalTable == [n \in 1..(left_context + right_context + 1) |-> <<"pe", left_context - (n - 1)>>]

\* C12: the local table is built exactly once: the first extend_pe call
\* creates left+right+1 entries for offsets +left down to -right, every
\* later call leaves the table unchanged whatever length it requests, and
\* forward returns all left+right+1 entries whatever the input and cache
\* lengths.
C12_LocalTableBuiltOnce ==
    /\ loc_builds <= 1
    /\ loc_has => loc_pe = LocalTable
    /\ loc_old # << >> => loc_pe = loc_old
    /\ loc_pc = "returned" => (loc_emb = LocalTable /\ Len(loc_emb) = left_context + right_context + 1)

\* A later extend_pe call has found the table, and a forward call for more
\* frames than the table has entries has returned.
C12_Witness ==
    /\ loc_builds = 1 /\ loc_old # << >>
    /\ left_context # right_context
    /\ loc_pc = "returned"
    /\ loc_T + loc_c > Len(loc_pe)
    /\ loc_emb = loc_pe

(***************************************************************************)
(* RelPositionMultiHeadAttentionLongformer: the chunk and skew transforms. *)
(* A band entry is modelled by what it holds: the product of query row i   *)
(* with key row j ("qk", 0-based), negative infinity ("-inf"), the skew's  *)
(* padding value ("pad"), or whatever new_empty left there ("uninit").     *)
(***************************************************************************)
QK(i, j) == [kind |-> "qk", i |-> i, j |-> j]
NegInf == [kind |-> "-inf", i |-> 0, j |-> 0]
PadEntry == [kind |-> "pad", i |-> 0, j |-> 0]
Uninit == [kind |-> "uninit", i |-> 0, j |-> 0]

InRange(i, r) == i > r[1] /\ i <= r[2]

\* The source index that lands on destination index i when the slice s is
\* assigned to the slice d (a source of size 1 is broadcast).
Pick(i, d, s) == IF RangeLen(s) = RangeLen(d) THEN s[1] + (i - d[1]) ELSE s[1] + 1

All(n) == <<0, n>>

\* x[i] for an integer i, kept as a range of one
At(n, i) == <<ClampIndex(i, n), ClampIndex(i, n) + 1>>

CanAssign3(db, dr, dc, sb, sr, sc) ==
    /\ Broadcastable(RangeLen(sb), RangeLen(db))
    /\ Broadcastable(RangeLen(sr), RangeLen(dr))
    /\ Broadcastable(RangeLen(sc), RangeLen(dc))

\* dst[db, dr, dc] = src[sb, sr, sc]
Assign3(dst, db, dr, dc, src, sb, sr, sc) ==
    [b \in 1..Len(dst) |-> [r \in 1..Len(dst[b]) |-> [c \in 1..Len(dst[b][r]) |->
        IF InRange(b, db) /\ InRange(r, dr) /\ InRange(c, dc)
        THEN src[Pick(b, db, sb)][Pick(r, dr, sr)][Pick(c, dc, sc)]
        ELSE dst[b][r][c]]]]

\* _chunk_overlap, lines 410-418: chunk c holds the 2w positions from c*w on
ChunkOverlap(seqlen, w) ==
    [c \in 1..((seqlen \div (2 * w)) * 2 - 1) |->
        [x \in 1..(2 * w) |-> (c - 1) * ((2 * w) \div 2) + (x - 1)]]

\* line 486: the einsum, chunk by chunk
ChunkAttn(seqlen, w) ==
    LET cq == ChunkOverlap(seqlen, w)
    IN  [c \in 1..Len(cq) |-> [x \in 1..(2 * w) |-> [y \in 1..(2 * w) |->
            QK(cq[c][x], cq[c][y])]]]

\* _skew with direction (0, 0, 0, 1), lines 375-377: one row of padding
\* below, then the n+1 rows of n read as n rows of n+1
Skew(block, n) ==
    LET padded == block \o <<[y \in 1..n |-> PadEntry]>>
    IN  Reshape(Flatten(padded, n + 1, n), n, n + 1)

NewEmpty(blocks, rows, cols) ==
    [b \in 1..blocks |-> [r \in 1..rows |-> [c \in 1..cols |-> Uninit]]]

\* _get_invalid_locations_mask, lines 423-429: column j + w of the mask is
\* diagonal_mask with diagonal_mask[:-j] = 1, for j in range(-w, 1)
BeginningMask(w) ==
    [r \in 1..w |-> [c \in 1..(w + 1) |-> InRange(r, SliceTo(w, -((c - 1) - w)))]]

\* line 432: mask.flip(dims=(2, 3))
EndingMask(w) ==
    [r \in 1..w |-> [c \in 1..(w + 1) |-> BeginningMask(w)[w + 1 - r][w + 2 - c]]]

\* mask_invalid_locations, lines 445-453, on a (seq_len, 2w+1) matrix
MaskInvalidLocations(m, w) ==
    LET seq_len == Len(m)
        br == SliceTo(seq_len, w)
        bc == SliceTo(2 * w + 1, w + 1)
        bm == GetSlice(BeginningMask(w), SliceTo(w, seq_len))
        er == SliceFrom(seq_len, -w)
        ec == SliceFrom(2 * w + 1, -(w + 1))
        em == GetSlice(EndingMask(w), SliceFrom(w, -seq_len))
        begun == [r \in 1..seq_len |-> [c \in 1..(2 * w + 1) |->
                    IF InRange(r, br) /\ InRange(c, bc) /\ bm[r - br[1]][c - bc[1]]
                    THEN NegInf ELSE m[r][c]]]
    IN  [r \in 1..seq_len |-> [c \in 1..(2 * w + 1) |->
            IF InRange(r, er) /\ InRange(c, ec) /\ em[r - er[1]][c - ec[1]]
            THEN NegInf ELSE begun[r][c]]]

\* The four slice assignments of lines 503-507, as <<destination blocks,
\* rows, columns, source chunks, rows, columns>>.
AssemblyCopies(nb, nc, w) ==
    << <<SliceTo(nb, -1), All(w), SliceFrom(2 * w + 1, w),
         All(nc), SliceTo(2 * w, w), SliceTo(2 * w + 1, w + 1)>>,
       <<At(nb, -1), All(w), SliceFrom(2 * w + 1, w),
         At(nc, -1), SliceFrom(2 * w, w), SliceTo(2 * w + 1, w + 1)>>,
       <<SliceFrom(nb, 1), All(w), SliceTo(2 * w + 1, w),
         All(nc), SliceBetween(2 * w, -(w + 1), -1), SliceFrom(2 * w + 1, w + 1)>>,
       <<At(nb, 0), SliceBetween(w, 1, w), SliceBetween(2 * w + 1, 1, w),
         At(nc, 0), SliceTo(2 * w, w - 1), SliceFrom(2 * w + 1, 1 - w)>> >>

RECURSIVE RunCopies(_, _, _, _)
\* The copies from the n-th on: the assembled blocks, or the failure of the
\* first assignment whose shapes do not match.
RunCopies(dst, src, copies, n) ==
    IF n > Len(copies) THEN [ok |-> TRUE, m |-> dst]
    ELSE LET c == copies[n]
         IN  IF ~CanAssign3(c[1], c[2], c[3], c[4], c[5], c[6])
             THEN [ok |-> FALSE, m |-> dst]
             ELSE RunCopies(Assign3(dst, c[1], c[2], c[3], src, c[4], c[5], c[6]),
                            src, copies, n + 1)

\* sliding_chunks_matmul_qk, lines 469-515, for a padded length seqlen that
\* is a multiple of 2w: the (seqlen, 2w+1) band, or the failure of a slice
\* assignment.
SlidingChunksMatmulQK(seqlen, w) ==
    LET chunks_count == (seqlen \div w) - 1
        chunk_attn == ChunkAttn(seqlen, w)
        diagonal_chunk_attn == [c \in 1..Len(chunk_attn) |-> Skew(chunk_attn[c], 2 * w)]
        empty == NewEmpty(chunks_count + 1, w, 2 * w + 1)
        done == RunCopies(empty, diagonal_chunk_attn,
                          AssemblyCopies(chunks_count + 1, Len(chunk_attn), w), 1)
        viewed == [r \in 1..seqlen |-> done.m[((r - 1) \div w) + 1][((r - 1) % w) + 1]]
    IN  IF done.ok
        THEN [ok |-> TRUE, m |-> MaskInvalidLocations(viewed, w)]
        ELSE [ok |-> FALSE, m |-> << >>]

(***************************************************************************)
(* RelPositionMultiHeadAttentionLongformer.forward.  Numbers as in         *)
(* forward_attention; the positional biases are 0, as lines 179-180 leave  *)
(* them.                                                                   *)
(***************************************************************************)
\* lines 337-338
BandFill == -10000

\* line 344
PadPenalty == -10000

\* line 539: the value of the frames padded around v
ValuePad == -1

NoEntry == [kind |-> "none", i |-> 0, j |-> 0]

Repeat(x, n) == [i \in 1..n |-> x]

Window == Max(att_context_size[1], att_context_size[2])

PadLenWithoutOuterMod(t, w) == 2 * w - (t % (2 * w))

\* line 303
PadLen(t, w) == (2 * w - (t % (2 * w))) % (2 * w)

InitBand ==
    /\ variant = "Longformer" /\ cache_id = 0 /\ cache_drop_size = 0
    /\ att_context_size \in (0..MaxBandContext) \X (0..MaxBandContext)
    /\ storage = NewStorage(1)
    /\ cache = "None" /\ cache_next = "None"
    /\ query = << >> /\ key = << >> /\ value = << >>
    /\ proj = << >>
    /\ pc = "idle" /\ stmt = 0 /\ err = "none"
    /\ entry = [cache |-> "None", cache_next |-> "None", storage |-> storage,
                query |-> << >>, key |-> << >>, value |-> << >>]
    /\ FAIdle /\ PosIdle /\ BandIdle /\ LocIdle /\ ParIdle /\ PVIdle

BandRaise(e) ==
    /\ b_err' = e
    /\ b_pc' = "raised"

\* forward(query, key, value, pad_mask, pos_emb) without a cache, lines
\* 290-310: the projections, the window check and the padding to a multiple
\* of 2w.  pos_emb is the local table's left+right+1 entries.
BandPrepare ==
    /\ b_pc = "idle"
    /\ \E t \in 1..MaxBandLen, pm \in [1..MaxBandLen -> BOOLEAN],
          kpat \in 0..1, g \in 0..1 :
         /\ b_T' = t
         /\ b_pad_mask' = SubSeq(pm, 1, t)
         /\ b_garbage' = g
         /\ b_p' = [n \in 1..(att_context_size[1] + att_context_size[2] + 1) |->
                        ((n - 1) % 2) + 1]
         /\ IF Window <= 0
            THEN /\ BandRaise("ValueError")
                 /\ b_q' = Repeat(1, t)
                 /\ b_k' = [j \in 1..t |-> (j - 1 + kpat) % 2]
                 /\ b_v' = [j \in 1..t |-> j]
                 /\ b_mask' = b_pad_mask'
            ELSE /\ b_q' = Repeat(1, t) \o Repeat(0, PadLen(t, Window))
                 /\ b_k' = [j \in 1..t |-> (j - 1 + kpat) % 2]
                              \o Repeat(0, PadLen(t, Window))
                 /\ b_v' = [j \in 1..t |-> j] \o Repeat(0, PadLen(t, Window))
                 /\ b_mask' = b_pad_mask' \o Repeat(TRUE, PadLen(t, Window))
                 /\ b_pc' = "matmul_qk"
                 /\ UNCHANGED b_err
    /\ UNCHANGED <<notBand, att_context_size, b_ac, b_scores, b_attn, b_den, b_x>>

\* lines 312-314
BandMatmulQK ==
    /\ b_pc = "matmul_qk"
    /\ \E r \in {SlidingChunksMatmulQK(Len(b_q), Window)} :
           IF r.ok
           THEN /\ b_ac' = r.m
                /\ b_pc' = "add_pos"
                /\ UNCHANGED b_err
           ELSE /\ BandRaise("RuntimeError")
                /\ UNCHANGED b_ac
    /\ UNCHANGED <<notBand, att_context_size, b_T, b_pad_mask, b_q, b_k, b_v, b_p,
                   b_mask, b_garbage, b_scores, b_attn, b_den, b_x>>

\* The 1-based table indices whose terms the two += of lines 327-332 add to
\* band column c (1-based) of a band of n columns, for a table of np entries.
AddedTerms(c, n, np, left, right) ==
    LET d1 == SliceTo(n, left)
        s1 == SliceTo(np, left)
        d2 == SliceFrom(n, -(right + 1))
        s2 == SliceFrom(np, left)
    IN  (IF InRange(c, d1) THEN <<Pick(c, d1, s1)>> ELSE << >>)
        \o (IF InRange(c, d2) THEN <<Pick(c, d2, s2)>> ELSE << >>)

\* lines 324-325, 337-338: whether column c is set to -10000
Forced(c, n, w, left, right) ==
    LET start_pos == w - left
        end_pos == w + right
    IN  InRange(c, SliceTo(n, start_pos)) \/ InRange(c, SliceFrom(n, end_pos + 1))

\* lines 318-338
BandAddPos ==
    /\ b_pc = "add_pos"
    /\ b_scores' =
         [r \in 1..Len(b_ac) |-> [c \in 1..Len(b_ac[r]) |->
            [ac |-> b_ac[r][c],
             bd |-> AddedTerms(c, Len(b_ac[r]), Len(b_p),
                               att_context_size[1], att_context_size[2]),
             forced |-> Forced(c, Len(b_ac[r]), Window,
                               att_context_size[1], att_context_size[2]),
             dm |-> NoEntry]]]
    /\ b_pc' = "pad_mask"
    /\ UNCHANGED <<notBand, att_context_size, b_T, b_pad_mask, b_q, b_k, b_v, b_p,
                   b_mask, b_garbage, b_ac, b_attn, b_den, b_x, b_err>>

AddBand(scores, d) ==
    [i \in 1..Len(scores) |-> [c \in 1..Len(scores[i]) |->
        [scores[i][c] EXCEPT !.dm = d[i][c]]]]

\* lines 342-350: d_mask is the band of ones against float_mask
BandPadMask ==
    /\ b_pc = "pad_mask"
    /\ \E r \in {SlidingChunksMatmulQK(Len(b_mask), Window)} :
           IF r.ok
           THEN /\ b_scores' = AddBand(b_scores, r.m)
                /\ b_pc' = "softmax"
                /\ UNCHANGED b_err
           ELSE /\ BandRaise("RuntimeError")
                /\ UNCHANGED b_scores
    /\ UNCHANGED <<notBand, att_context_size, b_T, b_pad_mask, b_q, b_k, b_v, b_p,
                   b_mask, b_garbage, b_ac, b_attn, b_den, b_x>>

\* What a band entry of diagonal_matrix_ac is worth
AcValue(e) ==
    CASE e.kind = "qk" -> b_q[e.i + 1] * b_k[e.j + 1]
      [] e.kind = "pad" -> 0
      [] OTHER -> b_garbage

DmValueIgnoringMask(e) == 0

\* What a band entry of d_mask is worth: ones times float_mask
DmValue(e) ==
    CASE e.kind = "qk" -> (IF b_mask[e.j + 1] THEN PadPenalty ELSE 0)
      [] e.kind = "pad" -> 0
      [] OTHER -> b_garbage

\* Whether scores[r][c] is finite
ScoreFinite(s) == (s.forced \/ s.ac.kind # "-inf") /\ s.dm.kind # "-inf"

\* scores[r][c] when it is finite (s_d_k = 1)
ScoreValue(s, r) ==
    (IF s.forced THEN BandFill
     ELSE AcValue(s.ac) + Sum([n \in 1..Len(s.bd) |-> b_q[r] * b_p[s.bd[n]]]))
    + DmValue(s.dm)

ScoreRow(r) == [c \in 1..Len(b_scores[r]) |->
                   IF ScoreFinite(b_scores[r][c]) THEN ScoreValue(b_scores[r][c], r) ELSE 0]

FiniteRow(r) == [c \in 1..Len(b_scores[r]) |-> ScoreFinite(b_scores[r][c])]

\* line 352: attn = torch.softmax(scores, dim=-1).masked_fill(mask, 0.0)
BandSoftmax ==
    /\ b_pc = "softmax"
    /\ b_attn' = [r \in 1..Len(b_scores) |->
                    IF b_mask[r] THEN Repeat(0, Len(b_scores[r]))
                    ELSE SoftmaxNum(ScoreRow(r), FiniteRow(r))]
    /\ b_den' = [r \in 1..Len(b_scores) |-> Sum(SoftmaxNum(ScoreRow(r), FiniteRow(r)))]
    /\ b_pc' = "matmul_pv"
    /\ UNCHANGED <<notBand, att_context_size, b_T, b_pad_mask, b_q, b_k, b_v, b_p,
                   b_mask, b_garbage, b_ac, b_scores, b_x, b_err>>

\* F.pad(x, (0, n), value=pad) on the rows of a block
PadColumns(x, n, pad) == [r \in 1..Len(x) |-> x[r] \o Repeat(pad, n)]

DropLastColumn(x) == [r \in 1..Len(x) |-> SubSeq(x[r], 1, Len(x[r]) - 1)]

\* _skew2, lines 390-396, on an M x L block
Skew2(x, m, l, pad) ==
    DropLastColumn(
        Reshape(SubSeq(Flatten(PadColumns(x, m + 1, pad), m, l + m + 1),
                       1, m * (l + m + 1) - m),
                m, m + l))

\* line 554: one row of the einsum of a skewed chunk of probabilities with
\* its chunk of values.  A probability is carried with the row it came
\* from: <<numerator, row>>.
ContextRow(p, v) ==
    [x |-> Sum([d \in 1..Len(v) |-> p[d][1] * v[d]]),
     rows |-> {p[d][2] : d \in {e \in 1..Len(v) : p[e][1] # 0}}]

\* lines 532-534: chunk c of the probabilities, 1-based
ChunkProb(prob, c, w) ==
    [r \in 1..w |-> [n \in 1..(2 * w + 1) |->
        <<prob[(c - 1) * w + r][n], (c - 1) * w + r>>]]

ChunkVPaddedBehind(v, c, w) ==
    SubSeq(v \o Repeat(ValuePad, w) \o Repeat(ValuePad, w), (c - 1) * w + 1, (c - 1) * w + 3 * w)

\* lines 539-548: chunk c of the padded values, 1-based
ChunkV(v, c, w) ==
    SubSeq(Repeat(ValuePad, w) \o v \o Repeat(ValuePad, w), (c - 1) * w + 1, (c - 1) * w + 3 * w)

\* sliding_chunks_matmul_pv, lines 528-555: the context of every frame
SlidingChunksMatmulPV(prob, v, w) ==
    [i \in 1..Len(v) |->
        ContextRow(Skew2(ChunkProb(prob, ((i - 1) \div w) + 1, w), w, 2 * w + 1, <<0, 0>>)
                       [((i - 1) % w) + 1],
                   ChunkV(v, ((i - 1) \div w) + 1, w))]

\* line 356: x = sliding_chunks_matmul_pv(p_attn, v, w)...[:, :T]
BandMatmulPV ==
    /\ b_pc = "matmul_pv"
    /\ b_x' = GetSlice(SlidingChunksMatmulPV(b_attn, b_v, Window), SliceTo(Len(b_v), b_T))
    /\ b_pc' = "done"
    /\ UNCHANGED <<notBand, att_context_size, b_T, b_pad_mask, b_q, b_k, b_v, b_p,
                   b_mask, b_garbage, b_ac, b_scores, b_attn, b_den, b_err>>

NextBand ==
    BandPrepare \/ BandMatmulQK \/ BandAddPos \/ BandPadMask \/ BandSoftmax \/ BandMatmulPV

SpecBand == InitBand /\ [][NextBand]_vars

(***************************************************************************)
(* Properties of the banded forward.                                       *)
(***************************************************************************)
Left == att_context_size[1]

Right == att_context_size[2]

BandBuilt == b_pc \in {"add_pos", "pad_mask", "softmax", "matmul_pv", "done"}

PositionsAdded == b_pc \in {"pad_mask", "softmax", "matmul_pv", "done"}

\* What entry [i, c] of the band should hold, 0-based
BandEntry(i, c, seqlen, w) ==
    IF i + c - w >= 0 /\ i + c - w <= seqlen - 1 THEN QK(i, i + c - w) ELSE NegInf

BandIsExact ==
    /\ Len(b_ac) = Len(b_q)
    /\ \A r \in 1..Len(b_ac) :
         /\ Len(b_ac[r]) = 2 * Window + 1
         /\ \A c \in 1..Len(b_ac[r]) :
              b_ac[r][c] = BandEntry(r - 1, c - 1, Len(b_q), Window)

\* C6: for every window w >= 1 and every padded length that is a multiple of
\* 2w, sliding_chunks_matmul_qk returns (it does not raise) the band whose
\* entry [i, c] is the product of query i and key i+c-w when that key
\* exists and negative infinity when it does not, with no uninitialised,
\* padding or foreign entry.
C6_BandHoldsExactlyTheWindowProducts ==
    /\ b_err # "RuntimeError"
    /\ BandBuilt => BandIsExact

\* The same for the windows of 2 and more: it holds.
BandHoldsExactlyTheWindowProductsForWideWindows ==
    Window >= 2 => C6_BandHoldsExactlyTheWindowProducts

BandIsExactForWideWindows ==
    /\ BandBuilt
    /\ Len(b_q) > 2 * Window
    /\ BandIsExact

\* Band column c (0-based) holds exactly the term of table index
\* c - w + left when it is inside [w-left, w+right], and is forced to
\* -10000 when it is outside.
ColumnAligned(s, c) ==
    IF c >= Window - Left /\ c <= Window + Right
    THEN ~s.forced /\ s.bd = <<c - Window + Left + 1>>
    ELSE s.forced

PositionsAligned ==
    \A r \in 1..Len(b_scores) : \A c \in 1..Len(b_scores[r]) :
        ColumnAligned(b_scores[r][c], c - 1)

\* C7: for every left, right >= 0 with max(left, right) > 0, the term of
\* local-table index p is added to band column w + (p - left), and every
\* column outside [w-left, w+right] is forced to -10000 before the padding
\* penalty is added.
C7_PositionTermsLandOnTheirColumns ==
    PositionsAdded => PositionsAligned

\* The same when the two contexts are equal: it holds.
PositionTermsLandOnTheirColumnsWhenSymmetric ==
    Left = Right => C7_PositionTermsLandOnTheirColumns

PositionsAlignedSymmetric == PositionsAdded /\ Left = Right /\ PositionsAligned

\* The dense computation for query i (1-based): the keys of the band that
\* are not padding, scored by content and position.
DenseKeys(i) ==
    [j \in 1..b_T |-> j - i >= -Left /\ j - i <= Right /\ ~b_pad_mask[j]]

DenseScores(i) ==
    [j \in 1..b_T |->
        IF j - i >= -Left /\ j - i <= Right
        THEN b_q[i] * b_k[j] + b_q[i] * b_p[Left + (j - i) + 1]
        ELSE 0]

DenseContext(i) ==
    [num |-> Sum([j \in 1..b_T |-> SoftmaxNum(DenseScores(i), DenseKeys(i))[j] * b_v[j]]),
     den |-> Sum(SoftmaxNum(DenseScores(i), DenseKeys(i)))]

\* The banded output of frame i is the dense one: 0 for a padded query,
\* the same fraction otherwise.
SameAsDense(i) ==
    IF b_pad_mask[i] THEN b_x[i].x = 0
    ELSE /\ b_x[i].rows \subseteq {i}
         /\ b_den[i] > 0
         /\ b_x[i].x * DenseContext(i).den = DenseContext(i).num * b_den[i]

BandedIsDense == Len(b_x) = b_T /\ \A i \in 1..b_T : SameAsDense(i)

\* C8: for any window and any length, padded or not, the banded output at
\* each position equals that of the dense attention with the same score
\* terms, the same band [i-left, i+right] and the same key padding.
C8_BandedEqualsDense ==
    /\ b_err # "RuntimeError"
    /\ b_pc = "done" => BandedIsDense

\* The same when the two contexts are equal and at least 2: it holds.
BandedEqualsDenseWhenSymmetricAndWide ==
    (Left = Right /\ Left >= 2) => C8_BandedEqualsDense

BandedIsDensePadded ==
    /\ b_pc = "done"
    /\ Len(b_q) > b_T
    /\ \E i \in 1..b_T : b_pad_mask[i]
    /\ \E i \in 1..b_T : ~b_pad_mask[i]
    /\ b_garbage = 1
    /\ BandedIsDense

BandPadded == b_pc \in {"matmul_qk", "add_pos", "pad_mask", "softmax", "matmul_pv", "done"}
                 \/ (b_pc = "raised" /\ b_err = "RuntimeError")

\* The frames added to the b_T of the call
AddedFrames == Len(b_q) - b_T

\* C13: for every T >= 1 and w >= 1 the pad length is the smallest
\* non-negative number of frames that makes T + pad a multiple of 2w (so it
\* is below 2w, and 0 when T is a multiple already), q, k, v and the mask
\* are padded by it, the added frames are marked masked, and the output the
\* call returns has exactly T positions.
C13_PaddedToMultipleAndTrimmed ==
    /\ BandPadded =>
         /\ AddedFrames >= 0 /\ AddedFrames < 2 * Window
         /\ (b_T + AddedFrames) % (2 * Window) = 0
         /\ \A m \in 0..(AddedFrames - 1) : (b_T + m) % (2 * Window) # 0
         /\ b_T % (2 * Window) = 0 => AddedFrames = 0
         /\ Len(b_k) = Len(b_q) /\ Len(b_v) = Len(b_q) /\ Len(b_mask) = Len(b_q)
         /\ SubSeq(b_mask, 1, b_T) = b_pad_mask
         /\ \A n \in (b_T + 1)..Len(b_mask) : b_mask[n]
    /\ b_pc = "done" => Len(b_x) = b_T

\* A call of more than 2w frames that needed padding has returned.
C13_Witness ==
    /\ b_pc = "done"
    /\ b_T > 2 * Window
    /\ AddedFrames > 0
    /\ \E n \in 1..b_T : ~b_pad_mask[n]
    /\ Len(b_x) = b_T

PenaltyAdded == b_pc \in {"softmax", "matmul_pv", "done"}

\* The penalty of band entry [r, c] (1-based) is that of key j (0-based)
PenaltyIsOfKey(r, c, j) ==
    IF j >= 0 /\ j <= Len(b_mask) - 1
    THEN /\ b_scores[r][c].dm = QK(r - 1, j)
         /\ DmValue(b_scores[r][c].dm) = (IF b_mask[j + 1] THEN -10000 ELSE 0)
    ELSE b_scores[r][c].dm = NegInf

\* Column w of row r, its own position, is finite, not forced and not
\* penalised.
OwnPositionSurvives(r) ==
    /\ ScoreFinite(b_scores[r][Window + 1])
    /\ ~b_scores[r][Window + 1].forced
    /\ DmValue(b_scores[r][Window + 1].dm) = 0

ParTensor(name, i, n) == [p \in 1..n |-> <<name, i, p - 1>>]

NoFrames == [mode |-> "none", frames |-> << >>]

ParSlotZero(i) == 0

\* self._cache_id, the slot every access of update_cache indexes
ParSlot(i) == p_id[i]

\* line 151
ParKeep(i) == Len(p_query[i]) - p_drop[i]

\* line 153: the destination and source ranges
ParShiftDst(i) == SliceTo(Len(storage[p_next][ParSlot(i)]), -ParKeep(i))

ParShiftSrc(i) == SliceFrom(Len(storage[p_cache[i]][ParSlot(i)]), ParKeep(i))

InitPar ==
    /\ variant = "MultiHeadAttention" /\ cache_id = 0 /\ cache_drop_size = 0
    /\ att_context_size = <<0, 0>>
    /\ \E n \in 1..MaxParCache : storage = NewStorage(n)
    /\ cache = "None" /\ cache_next = "None"
    /\ query = << >> /\ key = << >> /\ value = << >>
    /\ proj = << >>
    /\ pc = "idle" /\ stmt = 0 /\ err = "none"
    /\ entry = [cache |-> "None", cache_next |-> "None", storage |-> NewStorage(1),
                query |-> << >>, key |-> << >>, value |-> << >>]
    /\ FAIdle /\ PosIdle /\ BandIdle /\ LocIdle /\ PVIdle
    /\ p_next \in Buffers
    /\ p_id \in {f \in [Insts -> Slots] : f[1] # f[2]}
    /\ p_drop \in [Insts -> 0..MaxParDrop]
    /\ p_cache = [i \in Insts |-> "None"]
    /\ p_query = [i \in Insts |-> << >>] /\ p_key = [i \in Insts |-> << >>]
    /\ p_value = [i \in Insts |-> << >>] /\ p_tmp = [i \in Insts |-> NoFrames]
    /\ p_pc = [i \in Insts |-> "idle"] /\ p_err = [i \in Insts |-> "none"]
    /\ p_in = [i \in Insts |-> << >>]

\* forward(query, key, value, ..., cache, cache_next) of instance i is entered
ParCall(i) ==
    /\ p_pc[i] = "idle"
    /\ \E n \in 1..MaxParQuery, c \in {"None", "A"} :
         /\ p_query' = [p_query EXCEPT ![i] = ParTensor("query", i, n)]
         /\ p_key' = [p_key EXCEPT ![i] = ParTensor("key", i, n)]
         /\ p_value' = [p_value EXCEPT ![i] = ParTensor("value", i, n)]
         /\ p_cache' = [p_cache EXCEPT ![i] = c]
         /\ p_in' = [p_in EXCEPT ![i] = <<ParTensor("query", i, n), ParTensor("key", i, n),
                                         ParTensor("value", i, n)>>]
    /\ p_pc' = [p_pc EXCEPT ![i] = "cat"]
    /\ UNCHANGED <<notPar, storage, p_next, p_id, p_drop, p_tmp, p_err>>

\* lines 149-150; without a cache update_cache returns its arguments
ParCat(i) ==
    /\ p_pc[i] = "cat"
    /\ IF p_cache[i] # "None"
       THEN /\ p_key' = [p_key EXCEPT ![i] = storage[p_cache[i]][ParSlot(i)] \o p_key[i]]
            /\ p_value' = [p_value EXCEPT ![i] = p_key'[i]]
            /\ p_pc' = [p_pc EXCEPT ![i] = "shift_read"]
       ELSE /\ UNCHANGED <<p_key, p_value>>
            /\ p_pc' = [p_pc EXCEPT ![i] = "done"]
    /\ UNCHANGED <<notPar, storage, p_next, p_id, p_drop, p_cache, p_query, p_tmp,
                   p_err, p_in>>

ParRaise(i) ==
    /\ p_err' = [p_err EXCEPT ![i] = "RuntimeError"]
    /\ p_pc' = [p_pc EXCEPT ![i] = "raised"]
    /\ UNCHANGED <<notPar, storage, p_next, p_id, p_drop, p_cache, p_query, p_key,
                   p_value, p_tmp, p_in>>

ParRead(i, t) ==
    /\ p_tmp' = [p_tmp EXCEPT ![i] = t]
    /\ p_pc' = [p_pc EXCEPT ![i] = "shift_write"]
    /\ UNCHANGED <<notPar, storage, p_next, p_id, p_drop, p_cache, p_query, p_key,
                   p_value, p_err, p_in>>

\* line 153, the right-hand side: the shapes are checked and the source is
\* read.  When the next-cache buffer is the cache and the ranges overlap,
\* torch refuses, or copies as from a snapshot, or copies in place.
ParShiftRead(i) ==
    /\ p_pc[i] = "shift_read"
    /\ LET src == storage[p_cache[i]][ParSlot(i)]
       IN  IF ~Broadcastable(RangeLen(ParShiftSrc(i)), RangeLen(ParShiftDst(i)))
           THEN ParRaise(i)
           ELSE IF p_cache[i] = p_next /\ RangesOverlap(ParShiftDst(i), ParShiftSrc(i))
           THEN \/ ParRaise(i)
                \/ ParRead(i, [mode |-> "frames", frames |-> GetSlice(src, ParShiftSrc(i))])
                \/ ParRead(i, [mode |-> "in place", frames |-> << >>])
           ELSE ParRead(i, [mode |-> "frames", frames |-> GetSlice(src, ParShiftSrc(i))])

\* line 153, the assignment to the slice of the next-cache slot
ParShiftWrite(i) ==
    /\ p_pc[i] = "shift_write"
    /\ storage' = [storage EXCEPT ![p_next][ParSlot(i)] =
                      IF p_tmp[i].mode = "in place"
                      THEN CopyBackward(@, ParShiftDst(i), ParShiftSrc(i),
                                        RangeLen(ParShiftDst(i)))
                      ELSE SetSlice(@, ParShiftDst(i), p_tmp[i].frames)]
    /\ p_tmp' = [p_tmp EXCEPT ![i] = NoFrames]
    /\ p_pc' = [p_pc EXCEPT ![i] = "append"]
    /\ UNCHANGED <<notPar, p_next, p_id, p_drop, p_cache, p_query, p_key, p_value,
                   p_err, p_in>>

\* line 154
ParAppend(i) ==
    /\ p_pc[i] = "append"
    /\ LET dr == SliceFrom(Len(storage[p_next][ParSlot(i)]), -ParKeep(i))
           sr == SliceTo(Len(p_query[i]), ParKeep(i))
       IN  IF ~Broadcastable(RangeLen(sr), RangeLen(dr))
           THEN /\ ParRaise(i)
           ELSE /\ storage' = [storage EXCEPT ![p_next][ParSlot(i)] =
                                  SetSlice(@, dr, GetSlice(p_query[i], sr))]
                /\ p_pc' = [p_pc EXCEPT ![i] = "done"]
                /\ UNCHANGED <<notPar, p_next, p_id, p_drop, p_cache, p_query, p_key,
                               p_value, p_tmp, p_err, p_in>>

ParStep(i) == ParCall(i) \/ ParCat(i) \/ ParShiftRead(i) \/ ParShiftWrite(i) \/ ParAppend(i)

NextPar == \E i \in Insts : ParStep(i)

SpecPar == InitPar /\ [][NextPar]_vars

(***************************************************************************)
(* Properties of the two calls.                                            *)
(***************************************************************************)
\* The buffers as they were before any call
Storage0 == NewStorage(Len(storage["A"][0]))

ParEnded(i) == p_pc[i] \in {"done", "raised"}

ParMayHaveWritten(i) == p_cache[i] # "None" /\ p_pc[i] \in {"append", "done", "raised"}

\* Every slot that differs from what it was is the slot of a call with a
\* cache, in the next-cache buffer.
OnlyOwnSlotsWritten ==
    \A b \in Buffers, sl \in Slots :
        storage[b][sl] # Storage0[b][sl]
            => b = p_next /\ \E i \in Insts : p_id[i] = sl /\ ParMayHaveWritten(i)

\* What line 154 makes of a slot, with the error it ends with
AloneAppend(slot, q, keep) ==
    IF Broadcastable(RangeLen(SliceTo(Len(q), keep)), RangeLen(SliceFrom(Len(slot), -keep)))
    THEN [err |-> "none",
          slot |-> SetSlice(slot, SliceFrom(Len(slot), -keep), GetSlice(q, SliceTo(Len(q), keep)))]
    ELSE [err |-> "RuntimeError", slot |-> slot]

\* The outcomes of call i when it runs alone on the untouched buffers: the
\* error it ends with and the frames of its next-cache slot.
Alone(i) ==
    LET q == p_in[i][1]
        keep == Len(q) - p_drop[i]
        src == Storage0["A"][p_id[i]]
        dst == Storage0[p_next][p_id[i]]
        dr == SliceTo(Len(dst), -keep)
        sr == SliceFrom(Len(src), keep)
    IN  IF p_cache[i] = "None" THEN {[err |-> "none", slot |-> dst]}
        ELSE IF ~Broadcastable(RangeLen(sr), RangeLen(dr))
        THEN {[err |-> "RuntimeError", slot |-> dst]}
        ELSE IF p_next = "A" /\ RangesOverlap(dr, sr)
        THEN {[err |-> "RuntimeError", slot |-> dst],
              AloneAppend(SetSlice(dst, dr, GetSlice(src, sr)), q, keep),
              AloneAppend(CopyBackward(dst, dr, sr, RangeLen(dr)), q, keep)}
        ELSE {AloneAppend(SetSlice(dst, dr, GetSlice(src, sr)), q, keep)}

\* C14: update_cache touches only slot cache_id of the next-cache buffer,
\* so every other slot and a cache that is not the next-cache buffer stay as
\* they were; two calls by instances with distinct slots on the same
\* buffers leave in each slot what its call leaves when run alone, in every
\* interleaving of their reads and writes, which for a next-cache buffer
\* of its own is one outcome; and a call without a cache returns key, value
\* and query as passed and writes nothing.
C14_CallsOnDistinctSlotsAreIndependent ==
    /\ OnlyOwnSlotsWritten
    /\ \A i \in Insts :
         /\ ParEnded(i) =>
              /\ [err |-> p_err[i], slot |-> storage[p_next][p_id[i]]] \in Alone(i)
              /\ p_next # "A" => Cardinality(Alone(i)) = 1
         /\ (ParEnded(i) /\ p_cache[i] = "None") =>
              /\ <<p_query[i], p_key[i], p_value[i]>> = p_in[i]
              /\ storage[p_next][p_id[i]] = Storage0[p_next][p_id[i]]

\* The first call has ended and rewritten its slot while the second call
\* holds frames it has read and not yet written; the second call has
\* ended too, its steps having run between those of the first.
C14_Witness ==
    /\ p_pc[1] = "done" /\ p_pc[2] = "shift_write"
    /\ p_next = "B"
    /\ p_tmp[2].frames # << >>
    /\ storage[p_next][p_id[1]] # Storage0[p_next][p_id[1]]
    /\ storage[p_next][p_id[2]] = Storage0[p_next][p_id[2]]

BothCallsEndedAfterWriting ==
    /\ \A i \in Insts : p_pc[i] = "done" /\ p_cache[i] # "None"
                        /\ storage[p_next][p_id[i]] # Storage0[p_next][p_id[i]]
    /\ p_next = "A"

(***************************************************************************)
(* sliding_chunks_matmul_pv applied to a band of probabilities that is 0   *)
(* but for two entries of one row, on values that are all different.       *)
(***************************************************************************)
\* prob with 1 at [i0, c0] and 2 more at [i0, c1], 0-based
TwoEntries(seqlen, w, i0, c0, c1) ==
    [i \in 1..seqlen |-> [c \in 1..(2 * w + 1) |->
        (IF i - 1 = i0 /\ c - 1 = c0 THEN 1 ELSE 0)
        + (IF i - 1 = i0 /\ c - 1 = c1 THEN 2 ELSE 0)]]

InitPV ==
    /\ MHAIdle /\ FAIdle /\ PosIdle /\ BandIdle /\ LocIdle /\ ParIdle
    /\ pv_w \in 1..MaxPVWindow
    /\ \E m \in 1..MaxPVChunks :
         /\ pv_v = [j \in 1..(2 * pv_w * m) |-> j + 1]
         /\ \E i0 \in 0..(2 * pv_w * m - 1), c0 \in 0..(2 * pv_w), c1 \in 0..(2 * pv_w) :
              pv_prob = TwoEntries(2 * pv_w * m, pv_w, i0, c0, c1)
    /\ pv_out = << >>
    /\ pv_pc = "idle"

\* sliding_chunks_matmul_pv(prob, v, w)
MatmulPV ==
    /\ pv_pc = "idle"
    /\ pv_out' = SlidingChunksMatmulPV(pv_prob, pv_v, pv_w)
    /\ pv_pc' = "done"
    /\ UNCHANGED <<notPV, pv_w, pv_prob, pv_v>>

NextPV == MatmulPV

SpecPV == InitPV /\ [][NextPV]_vars

\* The value at position j, 0-based, of v with its boundary frames
ValueAt(j) == IF j >= 0 /\ j <= Len(pv_v) - 1 THEN pv_v[j + 1] ELSE ValuePad

\* Row r of block b of the unskewed probabilities holds prob[i, c] of its
\* frame i = b*w + r at column r + c and 0 elsewhere (0-based).
BlockPlacesBand(skewed, b) ==
    \A r \in 0..(pv_w - 1), d \in 0..(3 * pv_w - 1) :
        skewed[r + 1][d + 1]
            = IF d - r >= 0 /\ d - r <= 2 * pv_w
              THEN <<pv_prob[b * pv_w + r + 1][d - r + 1], b * pv_w + r + 1>>
              ELSE <<0, 0>>

UnskewPlacesBand ==
    \A b \in 0..((Len(pv_v) \div pv_w) - 1) :
        BlockPlacesBand(Skew2(ChunkProb(pv_prob, b + 1, pv_w), pv_w, 2 * pv_w + 1, <<0, 0>>), b)

\* The value chunk of block b holds positions b*w-w .. b*w+2w-1.
ValueChunksCoverWindow ==
    \A b \in 0..((Len(pv_v) \div pv_w) - 1), d \in 0..(3 * pv_w - 1) :
        ChunkV(pv_v, b + 1, pv_w)[d + 1] = ValueAt(b * pv_w - pv_w + d)

\* C16: for every w >= 1 and length that is a multiple of 2w,
\* sliding_chunks_matmul_pv gives frame i the sum over the band columns c
\* of prob[i, c] * v[i+c-w]: the unskew puts prob[i, c] of row r = i mod w
\* at column r + c of the 3w-wide chunk and 0 elsewhere, the value chunk of
\* block b covers positions b*w-w .. b*w+2w-1, and the boundary frames of
\* -1 only ever meet the band entries whose key is out of range.
C16_ContextIsBandTimesValues ==
    pv_pc = "done" =>
        /\ Len(pv_out) = Len(pv_v)
        /\ \A i \in 0..(Len(pv_v) - 1) :
             /\ pv_out[i + 1].x =
                  Sum([c \in 1..(2 * pv_w + 1) |->
                         pv_prob[i + 1][c] * ValueAt(i + (c - 1) - pv_w)])
             /\ pv_out[i + 1].rows \subseteq {i + 1}
        /\ UnskewPlacesBand
        /\ ValueChunksCoverWindow

\* A band of several blocks whose last frame has an entry for its own
\* position and one for a key past the end, which met a boundary frame.
C16_Witness ==
    /\ pv_pc = "done"
    /\ pv_w >= 2 /\ Len(pv_v) > 2 * pv_w
    /\ pv_prob[Len(pv_v)][2 * pv_w + 1] = 1
    /\ pv_prob[Len(pv_v)][pv_w + 1] = 2
    /\ pv_out[Len(pv_v)].x = ValuePad + 2 * pv_v[Len(pv_v)]

==========================================================================
